---- MODULE Spec2Model ----
(***************************************************************************)
(* Mission State Engine of space-mission-agent.                            *)
(*                                                                         *)
(* The module models the StateManager (state_manager.py), the seven-stage  *)
(* LangGraph pipeline of SpaceMissionAgent (agent_graph.py) and the        *)
(* orchestration of AutonomousSpaceMissionAgent (main_agent.py).           *)
(*                                                                         *)
(* A Python dict is a function on strings, a list a sequence, an Enum      *)
(* member a value [kind |-> "enum", v |-> <member name>] and a plain       *)
(* string that stands where an Enum member is expected a value             *)
(* [kind |-> "str", v |-> <string>].  datetime.now() reads the variable    *)
(* now, which the action Tick advances.                                    *)
(***************************************************************************)
EXTENDS Integers, Sequences, FiniteSets, TLC

VARIABLES state, now, doc, ret, pc, g, executed, phaseTrace, state_history

vars == <<state, now, doc, ret, pc, g, executed, phaseTrace, state_history>>

(***************************************************************************)
(* Bounds of the exploration.                                              *)
(***************************************************************************)
MaxTime == 1
MaxSats == 2
MaxAlerts == 2
MaxDecisions == 1
ConstellationSize == 2
MaxScan == 3
MaxSnapshots == 2

(***************************************************************************)
(* Enumerations (state_manager.py): member name |-> value.                 *)
(***************************************************************************)
MissionPhase ==
  [INITIALIZATION |-> "initialization",
   ORBITAL_CALCULATION |-> "orbital_calculation",
   CONSTELLATION_MANAGEMENT |-> "constellation_management",
   COLLISION_MONITORING |-> "collision_monitoring",
   MISSION_PLANNING |-> "mission_planning",
   GROUND_COORDINATION |-> "ground_coordination",
   MAINTENANCE_ANALYSIS |-> "maintenance_analysis",
   DEBRIS_MONITORING |-> "debris_monitoring",
   COMPLETED |-> "completed",
   ERROR |-> "error"]

AlertLevel ==
  [INFO |-> "info", WARNING |-> "warning", HIGH |-> "high",
   CRITICAL |-> "critical"]

SatelliteStatus ==
  [ACTIVE |-> "active", STANDBY |-> "standby",
   MAINTENANCE |-> "maintenance", OFFLINE |-> "offline",
   EMERGENCY |-> "emergency"]

Enum(name) == [kind |-> "enum", v |-> name]
Str(s) == [kind |-> "str", v |-> s]

(***************************************************************************)
(* Python primitives.                                                      *)
(***************************************************************************)
\* dict.update(u): every key of u replaces or adds the key in d.
dict_update(d, u) ==
  [k \in (DOMAIN d) \cup (DOMAIN u) |-> IF k \in DOMAIN u THEN u[k] ELSE d[k]]

\* [x for x in xs if Test(x)]
RECURSIVE SelectSeqIdx(_, _, _)
SelectSeqIdx(xs, keep, i) ==
  IF i > Len(xs) THEN <<>>
  ELSE (IF i \in keep THEN <<xs[i]>> ELSE <<>>) \o SelectSeqIdx(xs, keep, i + 1)

\* The outcome of a call as its caller sees it: the operation, its argument
\* (an id, a phase, a kind of text; "" when it has none), the exception it
\* raised ("none" when it returned) and the value it returned.
Returned(op, arg, val) == [op |-> op, arg |-> arg, err |-> "none", val |-> val]
Raised(op, arg, err) == [op |-> op, arg |-> arg, err |-> err, val |-> <<>>]
InFlight(op) == [op |-> op, arg |-> "", err |-> "in flight", val |-> <<>>]

(***************************************************************************)
(* StateManager                                                            *)
(***************************************************************************)
\* start_time and last_update are two readings of the clock, datetime.now()
\* called twice: t1 first, t2 after it
_initialize_state(t1, t2) ==
  [mission_id |-> "uuid4",
   mission_phase |-> Enum("INITIALIZATION"),
   start_time |-> t1,
   last_update |-> t2,
   satellites |-> <<>>,
   satellite_count |-> 0,
   orbital_data |-> [kind |-> "list", items |-> <<>>],
   collision_threats |-> <<>>,
   mission_plan |-> [kind |-> "empty"],
   objectives |-> <<>>,
   ground_stations |-> <<>>,
   maintenance_schedule |-> [kind |-> "empty", maintenance_required |-> <<>>],
   maintenance_tasks |-> <<>>,
   space_debris |-> <<>>,
   alerts |-> <<>>,
   decisions |-> <<>>,
   performance_metrics |-> [kind |-> "empty"]]

\* update_mission_phase that keeps the phase ERROR once it is set
update_mission_phase_error_terminal(s, phase, t) ==
  IF s.mission_phase = Enum("ERROR") THEN [s EXCEPT !.last_update = t]
  ELSE [s EXCEPT !.mission_phase = Enum(phase), !.last_update = t]

update_mission_phase(s, phase, t) ==
  [s EXCEPT !.mission_phase = Enum(phase), !.last_update = t]

\* asdict(satellite) with the status replaced by its value
satellite_dict(satellite) ==
  [satellite EXCEPT !.status = SatelliteStatus[satellite.status]]

\* add_satellite without line 284: the count is not recomputed
add_satellite_stale_count(s, satellite, t) ==
  [s EXCEPT !.satellites = Append(s.satellites, satellite_dict(satellite)),
            !.last_update = t]

add_satellite(s, satellite, t) ==
  LET sats == Append(s.satellites, satellite_dict(satellite))
  IN [s EXCEPT !.satellites = sats,
               !.satellite_count = Len(sats),
               !.last_update = t]

\* index of the first satellite with the id, 0 when there is none
RECURSIVE FirstIndex(_, _, _)
FirstIndex(sats, satellite_id, i) ==
  IF i > Len(sats) THEN 0
  ELSE IF sats[i].id = satellite_id THEN i
  ELSE FirstIndex(sats, satellite_id, i + 1)

\* update_satellite that leaves last_contact as it was
update_satellite_keep_contact(s, satellite_id, updates, t) ==
  LET i == FirstIndex(s.satellites, satellite_id, 1)
      sats == IF i = 0 THEN s.satellites
              ELSE [s.satellites EXCEPT
                      ![i] = dict_update(s.satellites[i], updates)]
  IN [s EXCEPT !.satellites = sats, !.last_update = t]

update_satellite(s, satellite_id, updates, t) ==
  LET i == FirstIndex(s.satellites, satellite_id, 1)
      sats == IF i = 0 THEN s.satellites
              ELSE [s.satellites EXCEPT
                      ![i] = [dict_update(s.satellites[i], updates)
                                EXCEPT !.last_contact = t]]
  IN [s EXCEPT !.satellites = sats, !.last_update = t]

add_ground_station(s, station, t) ==
  [s EXCEPT !.ground_stations = Append(s.ground_stations, station),
            !.last_update = t]

\* asdict(alert) with the level replaced by its value
alert_dict(alert) == [alert EXCEPT !.level = AlertLevel[alert.level]]

\* add_alert that puts the new alert in front
add_alert_prepend(s, alert, t) ==
  [s EXCEPT !.alerts = <<alert_dict(alert)>> \o s.alerts,
            !.last_update = t]

add_alert(s, alert, t) ==
  [s EXCEPT !.alerts = Append(s.alerts, alert_dict(alert)),
            !.last_update = t]

add_decision(s, decision, t) ==
  [s EXCEPT !.decisions = Append(s.decisions, decision),
            !.last_update = t]

update_performance_metrics(s, metrics, t) ==
  [s EXCEPT !.performance_metrics = dict_update(s.performance_metrics, metrics),
            !.last_update = t]

\* self.state["mission_phase"].value: an Enum member has a value, a str
\* has no attribute "value".
HasValue(phase) == phase.kind = "enum"
phase_value(phase) == MissionPhase[phase.v]

get_state_summary(s) ==
  [mission_id |-> s.mission_id,
   mission_phase |-> phase_value(s.mission_phase),
   satellite_count |-> s.satellite_count,
   collision_threats |-> Len(s.collision_threats),
   ground_stations |-> Len(s.ground_stations),
   space_debris |-> Len(s.space_debris),
   maintenance_tasks |-> Len(s.maintenance_tasks),
   alerts |-> Len(s.alerts),
   decisions |-> Len(s.decisions),
   last_update |-> s.last_update,
   performance_metrics |-> s.performance_metrics]

\* alert.get("resolved", False)
alert_resolved(alert) ==
  IF "resolved" \in DOMAIN alert THEN alert.resolved ELSE FALSE

\* a query that returns every alert, resolved or not
get_active_alerts_all(s) == s.alerts

get_active_alerts(s) ==
  SelectSeqIdx(s.alerts,
               {i \in 1..Len(s.alerts) : ~alert_resolved(s.alerts[i])}, 1)

(***************************************************************************)
(* The history of snapshots.  save_state_snapshot stores self.state.copy(), *)
(* a copy of the dict alone: the numbers, strings and Enum members are the  *)
(* copy's own, the lists and dicts are the very objects of the state.  A    *)
(* snapshot is therefore its own values and the set of keys whose object it *)
(* shares with the live state; a shared value is read from the live state.  *)
(* A key stops being shared when the store binds it to another object.      *)
(***************************************************************************)
max_history_size == 100

MutableKeys ==
  {"satellites", "orbital_data", "collision_threats", "mission_plan",
   "objectives", "ground_stations", "maintenance_schedule",
   "maintenance_tasks", "space_debris", "alerts", "decisions",
   "performance_metrics"}

Ref == [kind |-> "ref"]

\* dict.copy()
state_copy(s) ==
  [own |-> [k \in DOMAIN s |-> IF k \in MutableKeys THEN Ref ELSE s[k]],
   shared |-> DOMAIN s \cap MutableKeys]

\* what a snapshot holds while the live state is s
snapshot_value(snapshot, s) ==
  [k \in DOMAIN snapshot.own |->
     IF k \in snapshot.shared THEN s[k] ELSE snapshot.own[k]]

\* the store binds keys to other objects: the snapshots keep the objects
\* they had, as those objects are in s
rebind(history, s, keys) ==
  [i \in 1..Len(history) |->
     [own |-> [k \in DOMAIN history[i].own |->
                 IF k \in history[i].shared \cap keys
                 THEN s[k] ELSE history[i].own[k]],
      shared |-> history[i].shared \ keys]]

\* a history that drops the newest snapshot when it is full
save_state_snapshot_evict_newest(history, s) ==
  IF Len(history) >= max_history_size
  THEN Append(SubSeq(history, 1, Len(history) - 1), state_copy(s))
  ELSE Append(history, state_copy(s))

save_state_snapshot(history, s) ==
  LET appended == Append(history, state_copy(s))
  IN IF Len(appended) > max_history_size THEN Tail(appended) ELSE appended

get_state_history(history, s) ==
  [i \in 1..Len(history) |-> snapshot_value(history[i], s)]

(***************************************************************************)
(* Serialization.  A text is [kind |-> "malformed"] (not JSON) or          *)
(* [kind |-> "json", obj |-> <the object it denotes>].  Every value of the *)
(* state but mission_phase is a JSON value (str, int, bool, list, dict),   *)
(* which json.dumps writes and json.loads reads back as itself; the Enum   *)
(* member of mission_phase is written as its value, a JSON string.         *)
(***************************************************************************)
Malformed == [kind |-> "malformed", obj |-> <<>>]
NoText == [kind |-> "none", obj |-> <<>>]

export_state(s) ==
  [kind |-> "json",
   obj |-> [s EXCEPT !.mission_phase = Str(phase_value(s.mission_phase))]]

\* import_state that refreshes last_update before it parses the text
import_state_refresh_first(s, state_data, t) ==
  IF state_data.kind = "malformed"
  THEN [err |-> "JSONDecodeError", state |-> [s EXCEPT !.last_update = t]]
  ELSE [err |-> "none",
        state |-> [dict_update(s, state_data.obj) EXCEPT !.last_update = t]]

\* import_state that replaces the whole state by the imported object
import_state_replace_all(s, state_data, t) ==
  IF state_data.kind = "malformed"
  THEN [err |-> "JSONDecodeError", state |-> s]
  ELSE [err |-> "none",
        state |-> dict_update(state_data.obj, [last_update |-> t])]

\* import_state that keeps the last_update of the imported object
import_state_keep_imported_time(s, state_data, t) ==
  IF state_data.kind = "malformed"
  THEN [err |-> "JSONDecodeError", state |-> s]
  ELSE [err |-> "none", state |-> dict_update(s, state_data.obj)]

\* json.loads raises json.JSONDecodeError on a text that is not JSON, before
\* import_state has written anything; otherwise the state is updated with
\* the parsed object and last_update is refreshed.  The result is the
\* exception raised ("none" when the call returns) and the state left.
import_state(s, state_data, t) ==
  IF state_data.kind = "malformed"
  THEN [err |-> "JSONDecodeError", state |-> s]
  ELSE [err |-> "none",
        state |-> [dict_update(s, state_data.obj) EXCEPT !.last_update = t]]


(***************************************************************************)
(* AutonomousSpaceMissionAgent: the constellation and the ground stations  *)
(* (main_agent.py).  The exploration takes the first ConstellationSize     *)
(* entries of satellite_configs.                                           *)
(***************************************************************************)
satellite_configs ==
  <<[id |-> "SAT-001", altitude |-> 400],
    [id |-> "SAT-002", altitude |-> 450],
    [id |-> "SAT-003", altitude |-> 500],
    [id |-> "SAT-004", altitude |-> 550],
    [id |-> "SAT-005", altitude |-> 600]>>

\* Satellite(...) built for the k-th config (len(satellites) = k - 1)
Satellite(k, t) ==
  [id |-> satellite_configs[k].id,
   status |-> "ACTIVE",
   altitude |-> satellite_configs[k].altitude,
   battery_level |-> 90 + (k - 1) * 2,
   signal_strength |-> 95 + (k - 1),
   last_contact |-> t]

_create_initial_constellation(t) ==
  [k \in 1..ConstellationSize |-> Satellite(k, t)]

_setup_ground_stations ==
  <<[id |-> "GS-001", name |-> "Houston Mission Control",
     satellites_connected |-> [kind |-> "list", n |-> 2]],
    [id |-> "GS-002", name |-> "Canberra Deep Space",
     satellites_connected |-> [kind |-> "list", n |-> 2]],
    [id |-> "GS-003", name |-> "Madrid Deep Space",
     satellites_connected |-> [kind |-> "list", n |-> 1]]>>

\* a loop that adds the first satellite of the constellation only
add_satellites_first_only(s, satellites, i, t) ==
  IF satellites = <<>> THEN s ELSE add_satellite(s, satellites[1], t)

RECURSIVE add_satellites(_, _, _, _)
add_satellites(s, satellites, i, t) ==
  IF i > Len(satellites) THEN s
  ELSE add_satellites(add_satellite(s, satellites[i], t), satellites, i + 1, t)

RECURSIVE add_ground_stations(_, _, _, _)
add_ground_stations(s, stations, i, t) ==
  IF i > Len(stations) THEN s
  ELSE add_ground_stations(add_ground_station(s, stations[i], t),
                           stations, i + 1, t)

init_alert ==
  [alert_id |-> "INIT-001", type |-> "MISSION_INITIALIZATION",
   level |-> "INFO", acknowledged |-> FALSE, resolved |-> FALSE]

error_alert ==
  [alert_id |-> "ERR-001", type |-> "MISSION_ERROR",
   level |-> "CRITICAL", acknowledged |-> FALSE, resolved |-> FALSE]

initialize_mission(s, t) ==
  LET s1 == update_mission_phase(s, "INITIALIZATION", t)
      s2 == add_satellites(s1, _create_initial_constellation(t), 1, t)
      s3 == add_ground_stations(s2, _setup_ground_stations, 1, t)
      s4 == [s3 EXCEPT !.objectives = <<"uptime", "coverage", "latency",
                                        "collision", "resources">>,
                       !.mission_plan = [kind |-> "mission_config",
                                         satellites |-> 0]]
  IN add_alert(s4, init_alert, t)

(***************************************************************************)
(* SpaceMissionAgent: the graph and its seven nodes (agent_graph.py).      *)
(***************************************************************************)
entry_point == "orbital_mechanics"

\* the graph with the edge out of collision_avoidance drawn to the wrong node
edges_skip_planner ==
  [orbital_mechanics |-> "satellite_manager",
   satellite_manager |-> "collision_avoidance",
   collision_avoidance |-> "ground_coordinator",
   mission_planner |-> "ground_coordinator",
   ground_coordinator |-> "maintenance_agent",
   maintenance_agent |-> "space_debris_monitor",
   space_debris_monitor |-> "END"]

\* workflow.add_edge(a, b)
edges ==
  [orbital_mechanics |-> "satellite_manager",
   satellite_manager |-> "collision_avoidance",
   collision_avoidance |-> "mission_planner",
   mission_planner |-> "ground_coordinator",
   ground_coordinator |-> "maintenance_agent",
   maintenance_agent |-> "space_debris_monitor",
   space_debris_monitor |-> "END"]

Nodes == DOMAIN edges

\* the state run_mission hands to the graph
run_mission(initial_state) ==
  [mission_id |-> initial_state.mission_id,
   satellites |-> initial_state.satellites,
   orbital_data |-> [kind |-> "dict", items |-> <<>>],
   collision_threats |-> <<>>,
   mission_plan |-> [kind |-> "empty"],
   ground_stations |-> <<>>,
   space_debris |-> <<>>,
   maintenance_schedule |-> [kind |-> "empty", maintenance_required |-> <<>>],
   current_phase |-> "initialization",
   decisions |-> <<>>,
   alerts |-> <<>>]

Decide(gs, agent) ==
  [gs EXCEPT !.decisions = Append(gs.decisions, [agent |-> agent])]

orbital_mechanics_agent(gs) ==
  LET n == Len(gs.satellites)
      orbital_data ==
        [kind |-> "dict",
         items |-> [i \in 1..n |->
                      [id |-> gs.satellites[i].id,
                       altitude |-> 400 + (i - 1) * 50]]]
  IN Decide([gs EXCEPT !.orbital_data = orbital_data,
                       !.current_phase = "orbital_calculation"],
            "orbital_mechanics")

\* np.random.randint(-10, 10) and np.random.randint(-5, 5): the lowest and
\* the highest draw of each
StatusDraws == {[battery |-> -10, signal |-> -5], [battery |-> 9, signal |-> 4]}

\* satellite_management_agent with the two base levels exchanged
satellite_management_agent_swapped(gs, draw, t) ==
  LET n == Len(gs.satellites)
      satellites ==
        [i \in 1..n |->
           [gs.satellites[i] EXCEPT !.status = "Operational",
                                    !.battery_level = 95 + draw[i].battery,
                                    !.signal_strength = 85 + draw[i].signal,
                                    !.last_contact = t]]
  IN Decide([gs EXCEPT !.satellites = satellites,
                       !.mission_plan = [kind |-> "constellation_plan",
                                         satellites |-> n]],
            "satellite_manager")

satellite_management_agent(gs, draw, t) ==
  LET n == Len(gs.satellites)
      satellites ==
        [i \in 1..n |->
           [gs.satellites[i] EXCEPT !.status = "Operational",
                                    !.battery_level = 85 + draw[i].battery,
                                    !.signal_strength = 95 + draw[i].signal,
                                    !.last_contact = t]]
  IN Decide([gs EXCEPT !.satellites = satellites,
                       !.mission_plan = [kind |-> "constellation_plan",
                                         satellites |-> n]],
            "satellite_manager")

\* np.random.uniform(100, 1000): its low end, and the 200 km threshold
Distances == {100, 200}

\* the pairs (i, j), i < j, in the order of the two loops
RECURSIVE PairsFrom(_, _, _)
PairsFrom(n, i, j) ==
  IF i >= n THEN <<>>
  ELSE IF j > n THEN PairsFrom(n, i + 1, i + 2)
  ELSE <<(<<i, j>>)>> \o PairsFrom(n, i, j + 1)

\* the pairs of loops that both run over the whole list
PairsBothOrders(n) ==
  PairsFrom(n, 1, 2)
    \o [k \in 1..Len(PairsFrom(n, 1, 2)) |->
          <<PairsFrom(n, 1, 2)[k][2], PairsFrom(n, 1, 2)[k][1]>>]

Pairs(n) == PairsFrom(n, 1, 2)

RECURSIVE Threats(_, _, _, _)
Threats(satellites, pairs, distance, k) ==
  IF k > Len(pairs) THEN <<>>
  ELSE LET i == pairs[k][1]
           j == pairs[k][2]
           d == distance[pairs[k]]
       IN (IF d < 200
           THEN <<[threat_id |-> <<"COLL", i - 1, j - 1>>,
                   satellites |-> <<satellites[i].id, satellites[j].id>>,
                   distance |-> d,
                   risk_level |-> IF d < 100 THEN "HIGH" ELSE "MEDIUM",
                   avoidance_maneuver |-> "Required"]>>
           ELSE <<>>) \o Threats(satellites, pairs, distance, k + 1)

collision_avoidance_agent(gs, distance) ==
  LET collision_threats ==
        Threats(gs.satellites, Pairs(Len(gs.satellites)), distance, 1)
      alerts == IF collision_threats # <<>>
                THEN Append(gs.alerts,
                            [type |-> "COLLISION_RISK", severity |-> "HIGH",
                             count |-> Len(collision_threats)])
                ELSE gs.alerts
  IN Decide([gs EXCEPT !.collision_threats = collision_threats,
                       !.alerts = alerts],
            "collision_avoidance")

\* mission_planning_agent without its decision
mission_planning_agent_no_decision(gs) ==
  [gs EXCEPT !.mission_plan = [kind |-> "mission_plan",
                               satellites |-> Len(gs.satellites)]]

mission_planning_agent(gs) ==
  Decide([gs EXCEPT !.mission_plan = [kind |-> "mission_plan",
                                      satellites |-> Len(gs.satellites)]],
         "mission_planner")

ground_station_agent(gs) ==
  Decide([gs EXCEPT !.ground_stations =
            <<[id |-> "GS-001", location |-> "Houston, Texas",
               satellites_connected |-> [kind |-> "int", n |-> 3]],
              [id |-> "GS-002", location |-> "Canberra, Australia",
               satellites_connected |-> [kind |-> "int", n |-> 2]],
              [id |-> "GS-003", location |-> "Madrid, Spain",
               satellites_connected |-> [kind |-> "int", n |-> 2]]>>],
         "ground_coordinator")

\* np.random.uniform(70, 100) and np.random.uniform(80, 100): a satellite
\* below the battery thresholds and one above every threshold
HealthDraws ==
  {[battery_health |-> 70, thermal_health |-> 90],
   [battery_health |-> 90, thermal_health |-> 90]}

RECURSIVE MaintenanceRequired(_, _, _)
MaintenanceRequired(satellites, health, i) ==
  IF i > Len(satellites) THEN <<>>
  ELSE LET h == health[i]
       IN (IF h.battery_health < 80 \/ h.thermal_health < 85
           THEN <<[satellite_id |-> satellites[i].id,
                   issue |-> IF h.battery_health < 80
                             THEN "Battery degradation" ELSE "Thermal stress",
                   priority |-> IF h.battery_health < 75
                                THEN "HIGH" ELSE "MEDIUM"]>>
           ELSE <<>>) \o MaintenanceRequired(satellites, health, i + 1)

predictive_maintenance_agent(gs, health) ==
  Decide([gs EXCEPT !.maintenance_schedule =
            [kind |-> "schedule",
             maintenance_required |->
               MaintenanceRequired(gs.satellites, health, 1)]],
         "maintenance_agent")

space_debris_agent(gs) ==
  LET space_debris == <<[id |-> "DEB-001", threat_level |-> "LOW"],
                        [id |-> "DEB-002", threat_level |-> "MEDIUM"]>>
      high_risk_debris ==
        SelectSeqIdx(space_debris,
                     {i \in 1..Len(space_debris) :
                        space_debris[i].threat_level \in {"HIGH", "MEDIUM"}}, 1)
      alerts == IF high_risk_debris # <<>>
                THEN Append(gs.alerts,
                            [type |-> "SPACE_DEBRIS", severity |-> "MEDIUM",
                             count |-> Len(high_risk_debris)])
                ELSE gs.alerts
  IN Decide([gs EXCEPT !.space_debris = space_debris, !.alerts = alerts],
            "space_debris_monitor")


\* _generate_mission_report: get_mission_timeline reads mission_phase.value
_generate_mission_report(s) ==
  [status |-> "COMPLETED",
   performance_metrics |->
     [kind |-> "metrics",
      satellites_managed |-> s.satellite_count,
      collision_threats_detected |-> Len(s.collision_threats),
      maintenance_tasks_scheduled |-> Len(s.maintenance_tasks),
      alerts_generated |-> Len(s.alerts),
      decisions_made |-> Len(s.decisions),
      ground_stations_active |-> Len(s.ground_stations),
      space_debris_monitored |-> Len(s.space_debris)]]

\* the try block of run_autonomous_mission after the graph has returned
run_completed(s, result, t) ==
  LET s1 == dict_update(s, result)
      s2 == update_mission_phase(s1, "COMPLETED", t)
      mission_report == _generate_mission_report(s2)
  IN update_performance_metrics(s2, mission_report.performance_metrics, t)

\* an except block that records the phase and no alert
run_failed_no_alert(s, t) == update_mission_phase(s, "ERROR", t)

\* the except block of run_autonomous_mission
run_failed(s, t) ==
  add_alert(update_mission_phase(s, "ERROR", t), error_alert, t)

(***************************************************************************)
(* Observation of a run: the nodes that have returned, and the values the  *)
(* store's mission_phase has taken since the run began.                    *)
(***************************************************************************)
Observe(trace, phase) ==
  IF trace # <<>> /\ trace[Len(trace)] = phase THEN trace
  ELSE Append(trace, phase)

(***************************************************************************)
(* Initial state: StateManager() and no call made yet.                     *)
(* The clock reads 0 throughout the construction; reset_state builds the   *)
(* state anew and its two readings of the clock may differ.                *)
(***************************************************************************)
NoGraph == run_mission([mission_id |-> "", satellites |-> <<>>])

Init ==
  /\ now = 0
  /\ state = _initialize_state(0, 0)
  /\ doc = NoText
  /\ ret = Returned("__init__", "", <<>>)
  /\ pc = "idle"
  /\ g = NoGraph
  /\ executed = <<>>
  /\ phaseTrace = <<>>
  /\ state_history = <<>>

Idle == pc = "idle"

\* the clock advances
Tick ==
  /\ now < MaxTime
  /\ now' = now + 1
  /\ UNCHANGED <<state, doc, ret, pc, g, executed, phaseTrace,
               state_history>>

(***************************************************************************)
(* Calls on the store.                                                     *)
(***************************************************************************)
UpdateMissionPhase ==
  /\ Idle
  /\ \E phase \in DOMAIN MissionPhase :
       /\ state' = update_mission_phase(state, phase, now)
       /\ ret' = Returned("update_mission_phase", phase, <<>>)
  /\ UNCHANGED <<now, doc, pc, g, executed, phaseTrace,
               state_history>>

\* the satellites a caller adds are built like the first two of the
\* constellation (SAT-001 and SAT-002, as in the tests' sample_satellites)
AddSatellite ==
  /\ Idle
  /\ Len(state.satellites) < MaxSats
  /\ \E k \in {1, 2} :
       /\ state' = add_satellite(state, Satellite(k, now), now)
       /\ ret' = Returned("add_satellite", satellite_configs[k].id, <<>>)
  /\ UNCHANGED <<now, doc, pc, g, executed, phaseTrace,
               state_history>>

SatelliteIds == {satellite_configs[k].id : k \in {1, 2}}
Updates == {[status |-> "maintenance", battery_level |-> 50]}

UpdateSatellite ==
  /\ Idle
  /\ \E satellite_id \in SatelliteIds, updates \in Updates :
       /\ state' = update_satellite(state, satellite_id, updates, now)
       /\ ret' = Returned("update_satellite", satellite_id, <<>>)
  /\ UNCHANGED <<now, doc, pc, g, executed, phaseTrace,
               state_history>>

Alerts ==
  {[alert_id |-> "TEST-001", type |-> "TEST_ALERT", level |-> "INFO",
    acknowledged |-> FALSE, resolved |-> FALSE],
   [alert_id |-> "TEST-002", type |-> "TEST_ALERT", level |-> "WARNING",
    acknowledged |-> TRUE, resolved |-> TRUE]}

AddAlert ==
  /\ Idle
  /\ Len(state.alerts) < MaxAlerts
  /\ \E alert \in Alerts :
       /\ state' = add_alert(state, alert, now)
       /\ ret' = Returned("add_alert", alert.alert_id, <<>>)
  /\ UNCHANGED <<now, doc, pc, g, executed, phaseTrace,
               state_history>>

AddDecision ==
  /\ Idle
  /\ Len(state.decisions) < MaxDecisions
  /\ state' = add_decision(state, [decision_id |-> "DEC-001",
                                   agent |-> "test_agent"], now)
  /\ ret' = Returned("add_decision", "DEC-001", <<>>)
  /\ UNCHANGED <<now, doc, pc, g, executed, phaseTrace,
               state_history>>

GetStateSummary ==
  /\ Idle
  /\ ret' = IF HasValue(state.mission_phase)
            THEN Returned("get_state_summary", "", get_state_summary(state))
            ELSE Raised("get_state_summary", "", "AttributeError")
  /\ UNCHANGED <<state, now, doc, pc, g, executed, phaseTrace,
               state_history>>

GetActiveAlerts ==
  /\ Idle
  /\ ret' = Returned("get_active_alerts", "", get_active_alerts(state))
  /\ UNCHANGED <<state, now, doc, pc, g, executed, phaseTrace,
               state_history>>

ExportState ==
  /\ Idle
  /\ IF HasValue(state.mission_phase)
     THEN /\ doc' = export_state(state)
          /\ ret' = Returned("export_state", "", <<>>)
     ELSE /\ doc' = doc
          /\ ret' = Raised("export_state", "", "AttributeError")
  /\ UNCHANGED <<state, now, pc, g, executed, phaseTrace,
               state_history>>

\* the texts the caller can hand to import_state: the last exported text,
\* and a text that is not JSON
Texts == {Malformed} \cup (IF doc.kind = "json" THEN {doc} ELSE {})

ImportState ==
  /\ Idle
  /\ \E state_data \in Texts :
       LET out == import_state(state, state_data, now)
       IN /\ state' = out.state
          /\ ret' = IF out.err = "none"
                    THEN Returned("import_state", state_data.kind, <<>>)
                    ELSE Raised("import_state", state_data.kind, out.err)
          /\ state_history' = IF out.err = "none"
                              THEN rebind(state_history, state,
                                          DOMAIN state_data.obj)
                              ELSE state_history
  /\ UNCHANGED <<now, doc, pc, g, executed, phaseTrace>>

\* reset_state without state_history.clear()
ResetStateKeepsHistory ==
  /\ Idle
  /\ \E t2 \in {now, now + 1} :
       /\ t2 <= MaxTime
       /\ state' = _initialize_state(now, t2)
       /\ now' = t2
  /\ ret' = Returned("reset_state", "", <<>>)
  /\ state_history' = rebind(state_history, state, DOMAIN state)
  /\ UNCHANGED <<doc, pc, g, executed, phaseTrace>>

\* the clock may advance between the two readings of _initialize_state
ResetState ==
  /\ Idle
  /\ \E t2 \in {now, now + 1} :
       /\ t2 <= MaxTime
       /\ state' = _initialize_state(now, t2)
       /\ now' = t2
  /\ ret' = Returned("reset_state", "", <<>>)
  /\ state_history' = <<>>
  /\ UNCHANGED <<doc, pc, g, executed, phaseTrace>>

(***************************************************************************)
(* Calls on the agent.                                                     *)
(***************************************************************************)
\* initialize_mission on a store that holds at most cap satellites afterwards
InitializeMissionWithin(cap) ==
  /\ Idle
  /\ Len(state.satellites) + ConstellationSize <= cap
  /\ Len(state.alerts) < MaxAlerts
  /\ state' = initialize_mission(state, now)
  /\ ret' = Returned("initialize_mission", "", get_state_summary(state'))
  /\ state_history' = rebind(state_history, state,
                             {"objectives", "mission_plan"})
  /\ UNCHANGED <<now, doc, pc, g, executed, phaseTrace>>

InitializeMission == InitializeMissionWithin(MaxSats)

\* initialize_mission, also on a store that holds a constellation already
InitializeMissionAgain == InitializeMissionWithin(2 * ConstellationSize)

\* run_autonomous_mission up to the first node of the graph
RunStart ==
  /\ Idle
  /\ Len(state.alerts) < MaxAlerts
  /\ pc' = entry_point
  /\ g' = run_mission([mission_id |-> state.mission_id,
                       satellites |-> state.satellites])
  /\ ret' = InFlight("run_autonomous_mission")
  /\ executed' = <<>>
  /\ phaseTrace' = <<state.mission_phase>>
  /\ UNCHANGED <<state, now, doc, state_history>>

\* a node returns: the graph follows its edge
Return(node) ==
  /\ pc' = edges[node]
  /\ executed' = Append(executed, node)
  /\ phaseTrace' = Observe(phaseTrace, state'.mission_phase)
  /\ UNCHANGED <<now, doc, ret, state_history>>

OrbitalMechanics ==
  /\ pc = "orbital_mechanics"
  /\ g' = orbital_mechanics_agent(g)
  /\ state' = state
  /\ Return("orbital_mechanics")

\* the satellites of the graph state are the store's own list and dicts:
\* the node's writes to them are writes to the store
SatelliteManager ==
  /\ pc = "satellite_manager"
  /\ \E draw \in [1..Len(g.satellites) -> StatusDraws] :
       g' = satellite_management_agent(g, draw, now)
  /\ state' = [state EXCEPT !.satellites = g'.satellites]
  /\ Return("satellite_manager")

PairSet(n) == {<<i, j>> : i \in 1..n, j \in 1..n} \cap {p \in (1..n) \X (1..n) : p[1] < p[2]}

CollisionAvoidance ==
  /\ pc = "collision_avoidance"
  /\ \E distance \in [PairSet(Len(g.satellites)) -> Distances] :
       g' = collision_avoidance_agent(g, distance)
  /\ state' = state
  /\ Return("collision_avoidance")

MissionPlanner ==
  /\ pc = "mission_planner"
  /\ g' = mission_planning_agent(g)
  /\ state' = state
  /\ Return("mission_planner")

GroundCoordinator ==
  /\ pc = "ground_coordinator"
  /\ g' = ground_station_agent(g)
  /\ state' = state
  /\ Return("ground_coordinator")

MaintenanceAgent ==
  /\ pc = "maintenance_agent"
  /\ \E health \in [1..Len(g.satellites) -> HealthDraws] :
       g' = predictive_maintenance_agent(g, health)
  /\ state' = state
  /\ Return("maintenance_agent")

SpaceDebrisMonitor ==
  /\ pc = "space_debris_monitor"
  /\ g' = space_debris_agent(g)
  /\ state' = state
  /\ Return("space_debris_monitor")

\* a node raises: the graph stops and the except block runs
StageRaise ==
  /\ pc \in Nodes
  /\ state' = run_failed(state, now)
  /\ ret' = Raised("run_autonomous_mission", pc, "Exception")
  /\ pc' = "idle"
  /\ g' = NoGraph
  /\ phaseTrace' = Observe(phaseTrace, state'.mission_phase)
  /\ UNCHANGED <<now, doc, executed, state_history>>

\* the graph has reached END: the rest of the try block
RunComplete ==
  /\ pc = "END"
  /\ state' = run_completed(state, g, now)
  /\ ret' = Returned("run_autonomous_mission", "",
                     _generate_mission_report(
                       update_mission_phase(dict_update(state, g),
                                            "COMPLETED", now)))
  /\ pc' = "idle"
  /\ g' = NoGraph
  /\ phaseTrace' = Observe(phaseTrace, state'.mission_phase)
  /\ state_history' = rebind(state_history, state, DOMAIN g \ {"satellites"})
  /\ UNCHANGED <<now, doc, executed>>

(***************************************************************************)
(* Calls on the history of snapshots.                                      *)
(***************************************************************************)
SaveStateSnapshot ==
  /\ Idle
  /\ state_history' = save_state_snapshot(state_history, state)
  /\ ret' = Returned("save_state_snapshot", "", <<>>)
  /\ UNCHANGED <<state, now, doc, pc, g, executed, phaseTrace>>

GetStateHistory ==
  /\ Idle
  /\ ret' = Returned("get_state_history", "",
                     get_state_history(state_history, state))
  /\ UNCHANGED <<state, now, doc, pc, g, executed, phaseTrace,
               state_history>>

(***************************************************************************)
(* SpaceMissionTools.detect_collision_threats (local_tools.py).  It calls  *)
(* calculate_orbital_mechanics with time_delta = 0, so angle = 0 and the   *)
(* position of a satellite is (6371 + altitude, 0, 0): the distance of two *)
(* satellites is the difference of their altitudes.  The random            *)
(* time_to_collision and the timestamp of a threat are left out.           *)
(***************************************************************************)
calculate_orbital_mechanics(satellite) ==
  [x |-> 6371 + satellite.altitude, y |-> 0, z |-> 0]

\* np.sqrt((x1 - x2)**2 + (y1 - y2)**2 + (z1 - z2)**2) with y = z = 0
scan_distance(pos1, pos2) ==
  IF pos1.x >= pos2.x THEN pos1.x - pos2.x ELSE pos2.x - pos1.x

\* a risk level that takes 50 km itself for HIGH
risk_level_inclusive(distance) == IF distance <= 50 THEN "HIGH" ELSE "MEDIUM"

risk_level(distance) == IF distance < 50 THEN "HIGH" ELSE "MEDIUM"

RECURSIVE scan_threats(_, _, _)
scan_threats(satellites, pairs, k) ==
  IF k > Len(pairs) THEN <<>>
  ELSE LET sat1 == satellites[pairs[k][1]]
           sat2 == satellites[pairs[k][2]]
           distance == scan_distance(calculate_orbital_mechanics(sat1),
                                     calculate_orbital_mechanics(sat2))
       IN (IF distance < 100
           THEN <<[threat_id |-> <<"COLL", sat1.id, sat2.id>>,
                   satellites |-> <<sat1.id, sat2.id>>,
                   distance |-> distance,
                   risk_level |-> risk_level(distance),
                   avoidance_maneuver |-> "Required"]>>
           ELSE <<>>) \o scan_threats(satellites, pairs, k + 1)

detect_collision_threats(satellites) ==
  scan_threats(satellites, Pairs(Len(satellites)), 1)

\* the lists scanned: up to MaxScan of the first three satellites of the
\* constellation, in any order, each at one of the altitudes of
\* ScanAltitudes (their differences are 0, 1, 49, 50, 51, 99 and 100 km)
ScanAltitudes == {400, 449, 450, 499, 500}
ScanIds == {satellite_configs[k].id : k \in 1..3}

ScanInputs ==
  UNION {{[i \in 1..n |-> [id |-> ids[i], altitude |-> altitude[i]]] :
            ids \in {f \in [1..n -> ScanIds] :
                       \A i, j \in 1..n : i # j => f[i] # f[j]},
            altitude \in [1..n -> ScanAltitudes]} : n \in 0..MaxScan}

DetectCollisionThreats ==
  /\ Idle
  /\ \E satellites \in ScanInputs :
       ret' = Returned("detect_collision_threats", satellites,
                       detect_collision_threats(satellites))
  /\ UNCHANGED <<state, now, doc, pc, g, executed, phaseTrace,
               state_history>>

(***************************************************************************)
(* Collision risks of the store, and a satellite moved by update_satellite. *)
(***************************************************************************)
get_collision_risks(s) ==
  SelectSeqIdx(s.collision_threats,
               {i \in 1..Len(s.collision_threats) :
                  s.collision_threats[i].risk_level \in {"HIGH", "CRITICAL"}},
               1)

GetCollisionRisks ==
  /\ Idle
  /\ ret' = Returned("get_collision_risks", "", get_collision_risks(state))
  /\ UNCHANGED <<state, now, doc, pc, g, executed, phaseTrace,
               state_history>>

\* 440 km is 40 km from SAT-001 at 400 km; 1000 km is more than 200 km from
\* every satellite of the constellation
Moves == {[altitude |-> 440], [altitude |-> 1000]}

MoveSatellite ==
  /\ Idle
  /\ \E satellite_id \in SatelliteIds, updates \in Moves :
       /\ state' = update_satellite(state, satellite_id, updates, now)
       /\ ret' = Returned("update_satellite", satellite_id, <<>>)
  /\ UNCHANGED <<now, doc, pc, g, executed, phaseTrace,
               state_history>>

(***************************************************************************)
(* import_state of documents a caller has written: JSON objects that hold  *)
(* some of the fields of the state, or a field the state does not have.    *)
(* The caller keeps the text it has imported in doc.                       *)
(***************************************************************************)
Documents ==
  {[kind |-> "json", obj |-> obj] :
     obj \in {[satellites |-> <<satellite_dict(Satellite(1, 0))>>],
              [satellite_count |-> 2],
              [satellites |-> <<>>, satellite_count |-> 0,
               mission_phase |-> Str("completed")],
              [alerts |-> <<>>, last_update |-> 0],
              [operator_note |-> "handover"]}}

ImportDocument ==
  /\ Idle
  /\ \E state_data \in Documents :
       LET out == import_state(state, state_data, now)
       IN /\ state' = out.state
          /\ doc' = state_data
          /\ ret' = IF out.err = "none"
                    THEN Returned("import_state", state_data.kind, <<>>)
                    ELSE Raised("import_state", state_data.kind, out.err)
          /\ state_history' = IF out.err = "none"
                              THEN rebind(state_history, state,
                                          DOMAIN state_data.obj)
                              ELSE state_history
  /\ UNCHANGED <<now, pc, g, executed, phaseTrace>>

(***************************************************************************)
(* Cancellation of the task that runs run_autonomous_mission.  The nodes   *)
(* have no await of their own, so the CancelledError is delivered between  *)
(* two nodes, at the await of ainvoke.  It is a BaseException: the         *)
(* handler "except Exception" of run_autonomous_mission does not run, and  *)
(* the state dict of the graph is dropped.                                 *)
(***************************************************************************)
RunCancel ==
  /\ pc \in Nodes
  /\ ret' = Raised("run_autonomous_mission", pc, "CancelledError")
  /\ pc' = "idle"
  /\ g' = NoGraph
  /\ UNCHANGED <<state, now, doc, executed, phaseTrace, state_history>>

(***************************************************************************)
(* Maintenance tasks of the store.                                         *)
(***************************************************************************)
MaxTasks == 2

add_maintenance_task(s, task, t) ==
  [s EXCEPT !.maintenance_tasks = Append(s.maintenance_tasks, task),
            !.last_update = t]

get_high_priority_tasks(s) ==
  SelectSeqIdx(s.maintenance_tasks,
               {i \in 1..Len(s.maintenance_tasks) :
                  /\ s.maintenance_tasks[i].priority = "HIGH"
                  /\ s.maintenance_tasks[i].status # "completed"},
               1)

Tasks ==
  {[task_id |-> "MAINT-001", satellite_id |-> "SAT-001",
    priority |-> "HIGH", status |-> "scheduled"],
   [task_id |-> "MAINT-002", satellite_id |-> "SAT-002",
    priority |-> "HIGH", status |-> "completed"],
   [task_id |-> "MAINT-003", satellite_id |-> "SAT-002",
    priority |-> "MEDIUM", status |-> "scheduled"]}

AddMaintenanceTask ==
  /\ Idle
  /\ Len(state.maintenance_tasks) < MaxTasks
  /\ \E task \in Tasks :
       /\ state' = add_maintenance_task(state, task, now)
       /\ ret' = Returned("add_maintenance_task", task.task_id, <<>>)
  /\ UNCHANGED <<now, doc, pc, g, executed, phaseTrace, state_history>>

\* get_maintenance_tasks of the agent: the store's get_high_priority_tasks
GetMaintenanceTasks ==
  /\ Idle
  /\ ret' = Returned("get_maintenance_tasks", "",
                     get_high_priority_tasks(state))
  /\ UNCHANGED <<state, now, doc, pc, g, executed, phaseTrace,
               state_history>>

Next ==
  \/ Tick
  \/ UpdateMissionPhase
  \/ AddSatellite
  \/ UpdateSatellite
  \/ AddAlert
  \/ AddDecision
  \/ GetStateSummary
  \/ GetActiveAlerts
  \/ ExportState
  \/ ImportState
  \/ ResetState
  \/ InitializeMission
  \/ RunStart
  \/ OrbitalMechanics
  \/ SatelliteManager
  \/ CollisionAvoidance
  \/ MissionPlanner
  \/ GroundCoordinator
  \/ MaintenanceAgent
  \/ SpaceDebrisMonitor
  \/ StageRaise
  \/ RunComplete
  \/ SaveStateSnapshot
  \/ GetStateHistory
  \/ DetectCollisionThreats
  \/ GetCollisionRisks
  \/ MoveSatellite
  \/ ImportDocument
  \/ AddMaintenanceTask
  \/ GetMaintenanceTasks
  \/ RunCancel
  \/ InitializeMissionAgain

Spec == Init /\ [][Next]_vars


(***************************************************************************)
(* The store alone: its mutators and queries.                              *)
(***************************************************************************)
NextStore ==
  \/ Tick
  \/ UpdateMissionPhase
  \/ AddSatellite
  \/ UpdateSatellite
  \/ AddAlert
  \/ AddDecision
  \/ GetStateSummary
  \/ GetActiveAlerts
  \/ ResetState

SpecStore == Init /\ [][NextStore]_vars

(***************************************************************************)
(* Export and import of the states the store and initialize_mission build. *)
(***************************************************************************)
NextSerial ==
  \/ Tick
  \/ AddAlert
  \/ InitializeMission
  \/ ExportState
  \/ ImportState
  \/ GetStateSummary
  \/ GetActiveAlerts
  \/ ResetState

SpecSerial == Init /\ [][NextSerial]_vars

(***************************************************************************)
(* Missions: the constellation is built and changed, and runs are made.    *)
(***************************************************************************)
NextMission ==
  \/ AddSatellite
  \/ UpdateSatellite
  \/ InitializeMission
  \/ RunStart
  \/ OrbitalMechanics
  \/ SatelliteManager
  \/ CollisionAvoidance
  \/ MissionPlanner
  \/ GroundCoordinator
  \/ MaintenanceAgent
  \/ SpaceDebrisMonitor
  \/ StageRaise
  \/ RunComplete

SpecMission == Init /\ [][NextMission]_vars

(***************************************************************************)
(* The threat scanner applied to the lists of ScanInputs.                  *)
(***************************************************************************)
NextScan == DetectCollisionThreats

SpecScan == Init /\ [][NextScan]_vars

(***************************************************************************)
(* Collision risks: the constellation is built, satellites are moved, runs *)
(* are made and the risks are read.                                        *)
(***************************************************************************)
NextRisk ==
  \/ InitializeMission
  \/ MoveSatellite
  \/ RunStart
  \/ OrbitalMechanics
  \/ SatelliteManager
  \/ CollisionAvoidance
  \/ MissionPlanner
  \/ GroundCoordinator
  \/ MaintenanceAgent
  \/ SpaceDebrisMonitor
  \/ RunComplete
  \/ GetCollisionRisks

SpecRisk == Init /\ [][NextRisk]_vars

(***************************************************************************)
(* The clock advances between the calls that write last_update: decisions  *)
(* are added, the constellation is built, texts are exported and imported, *)
(* and runs are made.                                                      *)
(***************************************************************************)
NextClock ==
  \/ Tick
  \/ AddDecision
  \/ ExportState
  \/ ImportState
  \/ InitializeMission
  \/ RunStart
  \/ OrbitalMechanics
  \/ SatelliteManager
  \/ CollisionAvoidance
  \/ MissionPlanner
  \/ GroundCoordinator
  \/ MaintenanceAgent
  \/ SpaceDebrisMonitor
  \/ StageRaise
  \/ RunComplete

SpecClock == Init /\ [][NextClock]_vars

(***************************************************************************)
(* The history fills: snapshots are saved while the clock advances and     *)
(* update_satellite refreshes last_update.                                 *)
(***************************************************************************)
NextHistory ==
  \/ Tick
  \/ UpdateSatellite
  \/ SaveStateSnapshot

SpecHistory == Init /\ [][NextHistory]_vars

(***************************************************************************)
(* Snapshots and later mutations: up to MaxSnapshots snapshots are saved   *)
(* between the calls of the mutators, and the history is read.             *)
(***************************************************************************)
SaveStateSnapshotCapped ==
  /\ Len(state_history) < MaxSnapshots
  /\ SaveStateSnapshot

NextSnapshot ==
  \/ AddSatellite
  \/ UpdateSatellite
  \/ AddAlert
  \/ AddDecision
  \/ SaveStateSnapshotCapped
  \/ GetStateHistory

SpecSnapshot == Init /\ [][NextSnapshot]_vars

(***************************************************************************)
(* Imports of written documents into stores that hold satellites and       *)
(* alerts.                                                                 *)
(***************************************************************************)
NextImport ==
  \/ Tick
  \/ AddSatellite
  \/ AddAlert
  \/ ImportDocument

SpecImport == Init /\ [][NextImport]_vars

(***************************************************************************)
(* The satellites of the store: added and updated as time passes, beside   *)
(* alerts.                                                                 *)
(***************************************************************************)
NextSatellites ==
  \/ Tick
  \/ AddSatellite
  \/ UpdateSatellite
  \/ AddAlert

SpecSatellites == Init /\ [][NextSatellites]_vars

(***************************************************************************)
(* The phase of the store, set from any phase to any phase, beside         *)
(* satellites, alerts and decisions.                                       *)
(***************************************************************************)
NextPhases ==
  \/ Tick
  \/ UpdateMissionPhase
  \/ AddSatellite
  \/ AddAlert
  \/ AddDecision

SpecPhases == Init /\ [][NextPhases]_vars

(***************************************************************************)
(* Maintenance: tasks are added to the store, runs are made and the tasks  *)
(* are read.                                                               *)
(***************************************************************************)
NextMaintenance ==
  \/ InitializeMission
  \/ AddMaintenanceTask
  \/ RunStart
  \/ OrbitalMechanics
  \/ SatelliteManager
  \/ CollisionAvoidance
  \/ MissionPlanner
  \/ GroundCoordinator
  \/ MaintenanceAgent
  \/ SpaceDebrisMonitor
  \/ RunComplete
  \/ GetMaintenanceTasks

SpecMaintenance == Init /\ [][NextMaintenance]_vars

(***************************************************************************)
(* Runs that are cancelled between two stages.                             *)
(***************************************************************************)
NextCancel ==
  \/ InitializeMission
  \/ RunStart
  \/ OrbitalMechanics
  \/ SatelliteManager
  \/ CollisionAvoidance
  \/ MissionPlanner
  \/ GroundCoordinator
  \/ MaintenanceAgent
  \/ SpaceDebrisMonitor
  \/ RunCancel
  \/ RunComplete

SpecCancel == Init /\ [][NextCancel]_vars

(***************************************************************************)
(* reset_state of stores that are fresh or hold what initialize_mission    *)
(* builds, in any phase, with snapshots saved.                             *)
(***************************************************************************)
NextReset ==
  \/ InitializeMission
  \/ UpdateMissionPhase
  \/ SaveStateSnapshotCapped
  \/ ResetState

SpecReset == Init /\ [][NextReset]_vars

(***************************************************************************)
(* initialize_mission and run_autonomous_mission, called in any order,     *)
(* initialize_mission up to twice.                                         *)
(***************************************************************************)
NextAgent ==
  \/ InitializeMissionAgain
  \/ RunStart
  \/ OrbitalMechanics
  \/ SatelliteManager
  \/ CollisionAvoidance
  \/ MissionPlanner
  \/ GroundCoordinator
  \/ MaintenanceAgent
  \/ SpaceDebrisMonitor
  \/ RunComplete

SpecAgent == Init /\ [][NextAgent]_vars


(***************************************************************************)
(* Properties                                                              *)
(***************************************************************************)
HasSatellite(s, satellite_id) == FirstIndex(s.satellites, satellite_id, 1) # 0

\* the seven stages in the order of the design
StageOrder ==
  <<"orbital_mechanics", "satellite_manager", "collision_avoidance",
    "mission_planner", "ground_coordinator", "maintenance_agent",
    "space_debris_monitor">>

RunReturned == ret.op = "run_autonomous_mission" /\ ret.err = "none"
RunRaised == ret.op = "run_autonomous_mission" /\ ret.err = "Exception"

\* C1: add_satellite of an id that is already in the store fails with
\* DuplicateEntity and leaves the satellites and satellite_count as they were.
C1_DuplicateRejected ==
  [][(AddSatellite /\ HasSatellite(state, ret'.arg))
       => /\ ret'.err = "DuplicateEntity"
          /\ state'.satellites = state.satellites
          /\ state'.satellite_count = state.satellite_count]_vars

\* C2: satellite_count is the length of the satellite collection after every
\* add_satellite, update_satellite, initialize_mission and
\* run_autonomous_mission, and it counts the satellites added: a call that
\* adds n satellites raises it by n, every other step leaves it.
C2_CountInvariant ==
  /\ [](state.satellite_count = Len(state.satellites))
  /\ [][state'.satellite_count = state.satellite_count
          + (IF AddSatellite THEN 1
             ELSE IF InitializeMission THEN ConstellationSize ELSE 0)]_vars

C2_Witness ==
  /\ RunReturned
  /\ state.satellite_count = 2
  /\ state.satellites[1].id = state.satellites[2].id

\* C3: update_satellite of an id that is not in the store fails with NotFound
\* and changes nothing, last_update included.
C3_UpdateUnknownFails ==
  [][(UpdateSatellite /\ ~HasSatellite(state, ret'.arg))
       => (ret'.err = "NotFound" /\ state' = state)]_vars

\* C4: importing the export of the current state leaves every field as it
\* was (last_update apart, which the import refreshes), mission_phase with
\* the same member of the enumeration in the same representation.
C4_RoundTrip ==
  [][(/\ ImportState
      /\ ret'.err = "none"
      /\ HasValue(state.mission_phase)
      /\ doc.obj = export_state(state).obj)
       => /\ DOMAIN state' = DOMAIN state
          /\ \A k \in DOMAIN state \ {"last_update"} : state'[k] = state[k]]_vars

\* the state is what import_state of the text leaves in a fresh store
ImportedIntoFresh ==
  /\ ret.op = "import_state"
  /\ ret.err = "none"
  /\ \E t \in 0..MaxTime :
       state = import_state(_initialize_state(t, t), doc, state.last_update).state

Unresolved(alerts) == {i \in 1..Len(alerts) : ~alert_resolved(alerts[i])}

\* C5: after the export of a state with n satellites and m unresolved alerts
\* is imported into a fresh store, get_state_summary returns with
\* satellite_count = n and get_active_alerts returns m alerts.
C5_SummaryAfterImport ==
  /\ [][(GetStateSummary /\ ImportedIntoFresh)
          => /\ ret'.err = "none"
             /\ ret'.val.satellite_count = Len(doc.obj.satellites)]_vars
  /\ [][(GetActiveAlerts /\ ImportedIntoFresh)
          => /\ ret'.err = "none"
             /\ Len(ret'.val) = Cardinality(Unresolved(doc.obj.alerts))]_vars

\* C6: import_state of a text that is not a parseable document raises the
\* parser's error (json.JSONDecodeError, the store's MalformedDocument) to the
\* caller and leaves every field of the state, last_update included, as it
\* was.
C6_MalformedImport ==
  [][(ImportState /\ ret'.arg = "malformed")
       => (ret'.err = "JSONDecodeError" /\ state' = state)]_vars

C6_Witness ==
  /\ ret.op = "import_state"
  /\ ret.arg = "malformed"
  /\ ret.err = "JSONDecodeError"
  /\ state.last_update < now
  /\ Len(state.satellites) > 0

\* C7: in a run the stages execute in the order of the design, each once:
\* a stage is entered only when exactly the stages before it have returned,
\* and a run that returns has executed all seven.
C7_StageOrder ==
  /\ pc \in Nodes =>
       \E k \in 1..Len(StageOrder) :
         pc = StageOrder[k] /\ executed = SubSeq(StageOrder, 1, k - 1)
  /\ pc = "END" => executed = StageOrder
  /\ RunReturned => executed = StageOrder

C7_Witness == RunReturned /\ Len(executed) = 7 /\ Len(state.satellites) = 2

\* C8: a full run on a fresh mission takes the store's mission phase through
\* INITIALIZATION, ORBITAL_CALCULATION, CONSTELLATION_MANAGEMENT,
\* COLLISION_MONITORING, MISSION_PLANNING, GROUND_COORDINATION,
\* MAINTENANCE_ANALYSIS, DEBRIS_MONITORING, COMPLETED, in that order.
C8_PhaseOrder ==
  (RunReturned /\ phaseTrace[1] = Enum("INITIALIZATION"))
    => phaseTrace = <<Enum("INITIALIZATION"), Enum("ORBITAL_CALCULATION"),
                      Enum("CONSTELLATION_MANAGEMENT"),
                      Enum("COLLISION_MONITORING"), Enum("MISSION_PLANNING"),
                      Enum("GROUND_COORDINATION"),
                      Enum("MAINTENANCE_ANALYSIS"), Enum("DEBRIS_MONITORING"),
                      Enum("COMPLETED")>>

Agents(decisions) == [i \in 1..Len(decisions) |-> decisions[i].agent]

\* C9: every stage that completes appends one decision, so the decisions of a
\* run in flight are those of the stages that have returned, and a run that
\* returns leaves exactly the seven decisions of the seven stages, in order.
C9_OneDecisionPerStage ==
  /\ pc # "idle" => Agents(g.decisions) = executed
  /\ RunReturned => Agents(state.decisions) = StageOrder

C9_Witness == RunReturned /\ Len(state.decisions) = 7

\* C10: when a stage raises, run_autonomous_mission leaves the phase ERROR,
\* has appended exactly one alert, of level CRITICAL, has run no later stage
\* and raises to its caller instead of returning a report.
C10_FailureHandling ==
  /\ [](RunRaised =>
          /\ state.mission_phase = Enum("ERROR")
          /\ pc = "idle"
          /\ \E k \in 1..Len(StageOrder) :
               ret.arg = StageOrder[k] /\ executed = SubSeq(StageOrder, 1, k - 1)
          /\ ret.val = <<>>)
  /\ [][(pc \in Nodes /\ pc' = "idle")
          => /\ ret'.op = "run_autonomous_mission" /\ ret'.err = "Exception"
             /\ Len(state'.alerts) = Len(state.alerts) + 1
             /\ SubSeq(state'.alerts, 1, Len(state.alerts)) = state.alerts
             /\ state'.alerts[Len(state'.alerts)].level = AlertLevel.CRITICAL
             /\ state'.alerts[Len(state'.alerts)].type = "MISSION_ERROR"]_vars

C10_Witness ==
  /\ RunRaised
  /\ ret.arg = "mission_planner"
  /\ Len(executed) = 3
  /\ Len(state.alerts) = 2

(***************************************************************************)
(* C11: if stage k of a run raises, the store afterwards holds what stages *)
(* 1..k-1 committed (their decisions and the collections they wrote) and   *)
(* its phase is ERROR.                                                     *)
(***************************************************************************)
C11_PartialFailureRetention ==
  [][StageRaise
       => /\ state'.mission_phase = Enum("ERROR")
          /\ \A i \in 1..Len(g.decisions) :
               \E j \in 1..Len(state'.decisions) :
                 state'.decisions[j] = g.decisions[i]
          /\ \A i \in 1..Len(g.collision_threats) :
               \E j \in 1..Len(state'.collision_threats) :
                 state'.collision_threats[j] = g.collision_threats[i]]_vars

(***************************************************************************)
(* The threat scanner                                                      *)
(***************************************************************************)
Scanned == ret.op = "detect_collision_threats"

\* the distance of the satellites at positions i and j of a scanned list
Separation(satellites, i, j) ==
  IF satellites[i].altitude >= satellites[j].altitude
  THEN satellites[i].altitude - satellites[j].altitude
  ELSE satellites[j].altitude - satellites[i].altitude

\* the threats of a scan that name the two satellites, in either order
ThreatsOf(threats, a, b) ==
  {k \in 1..Len(threats) :
     {threats[k].satellites[1], threats[k].satellites[2]} = {a, b}}

\* C12: a pair at distance d < 50 km yields a threat of risk HIGH, a pair at
\* 50 km <= d < 100 km a threat of risk MEDIUM, and a pair at d >= 100 km
\* no threat.
C12_ThreatClassification ==
  Scanned =>
    \A i, j \in 1..Len(ret.arg) :
      i < j =>
        LET d == Separation(ret.arg, i, j)
            found == ThreatsOf(ret.val, ret.arg[i].id, ret.arg[j].id)
        IN /\ d < 50 => /\ found # {}
                        /\ \A k \in found : ret.val[k].risk_level = "HIGH"
           /\ (50 <= d /\ d < 100)
                => /\ found # {}
                   /\ \A k \in found : ret.val[k].risk_level = "MEDIUM"
           /\ d >= 100 => found = {}

\* a scan of three satellites that has a pair at exactly 50 km (MEDIUM), a
\* pair at 49 km (HIGH) and a pair at 99 km (MEDIUM)
C12_Witness ==
  /\ Scanned
  /\ Len(ret.arg) = 3
  /\ Separation(ret.arg, 1, 2) = 50
  /\ Separation(ret.arg, 2, 3) = 49
  /\ Separation(ret.arg, 1, 3) = 99
  /\ Len(ret.val) = 3

\* C13: one scan of a list that holds A and B within the threshold emits
\* exactly one threat for the pair, whether A precedes B or B precedes A.
C13_ThreatSymmetry ==
  Scanned =>
    \A i, j \in 1..Len(ret.arg) :
      (i # j /\ Separation(ret.arg, i, j) < 100)
        => Cardinality(ThreatsOf(ret.val, ret.arg[i].id, ret.arg[j].id)) = 1

\* SAT-002 precedes SAT-001 in the scanned list and the two are 1 km apart
C13_Witness ==
  /\ Scanned
  /\ Len(ret.arg) = 2
  /\ ret.arg[1].id = "SAT-002" /\ ret.arg[2].id = "SAT-001"
  /\ Separation(ret.arg, 1, 2) = 1
  /\ Len(ret.val) = 1

\* C14: the threat id depends on the unordered pair alone: two scans, one
\* with A before B and one with B before A, give the pair the same
\* threat_id.
C14_ThreatIdOrderIndependent ==
  [][(Scanned /\ DetectCollisionThreats)
       => \A a \in 1..Len(ret.val), b \in 1..Len(ret'.val) :
            ({ret.val[a].satellites[1], ret.val[a].satellites[2]}
               = {ret'.val[b].satellites[1], ret'.val[b].satellites[2]})
              => ret.val[a].threat_id = ret'.val[b].threat_id]_vars

(***************************************************************************)
(* Collision risks after a run                                             *)
(***************************************************************************)
\* the pairs of positions of a list of satellites that are d km apart or less
PairsWithin(satellites, d) ==
  {p \in PairSet(Len(satellites)) : Separation(satellites, p[1], p[2]) <= d}

\* C15: when get_collision_risks is read right after a run, it returns the
\* empty list if the satellites are pairwise more than 200 km apart, and
\* exactly one entry, of risk HIGH, if one pair is 40 km apart and every
\* other pair more than 200 km.
C15_CollisionRisks ==
  [][(GetCollisionRisks /\ RunReturned /\ Len(state.satellites) >= 2)
       => /\ PairsWithin(state.satellites, 200) = {} => ret'.val = <<>>
          /\ (/\ Cardinality(PairsWithin(state.satellites, 200)) = 1
              /\ \A p \in PairsWithin(state.satellites, 200) :
                   Separation(state.satellites, p[1], p[2]) = 40)
               => /\ Len(ret'.val) = 1
                  /\ ret'.val[1].risk_level = "HIGH"]_vars

C17_BoundedFifoHistory ==
  /\ [](Len(state_history) <= 100)
  /\ [][SaveStateSnapshot
          => /\ snapshot_value(state_history'[Len(state_history')], state')
                  = state
             /\ IF Len(state_history) < 100
                THEN SubSeq(state_history', 1, Len(state_history))
                       = state_history
                ELSE /\ Len(state_history') = 100
                     /\ SubSeq(state_history', 1, 99) = Tail(state_history)]_vars

\* the history is full, its oldest snapshot was taken before last_update
\* changed and its newest after
C17_Witness ==
  /\ Len(state_history) = 100
  /\ state_history[1].own.last_update = 0
  /\ state_history[100].own.last_update = 1
  /\ ret.op = "save_state_snapshot"

\* C18: a stored snapshot is a deep copy: no later call changes any value it
\* holds, its collections and their elements included.
C18_SnapshotIsolation ==
  [][Len(state_history') >= Len(state_history)
       => \A i \in 1..Len(state_history) :
            snapshot_value(state_history'[i], state')
              = snapshot_value(state_history[i], state)]_vars

(***************************************************************************)
(* Fresh stores and initialize_mission                                     *)
(***************************************************************************)
EmptyCollections(s) ==
  /\ s.satellites = <<>> /\ s.orbital_data.items = <<>>
  /\ s.collision_threats = <<>> /\ s.objectives = <<>>
  /\ s.ground_stations = <<>> /\ s.maintenance_tasks = <<>>
  /\ s.space_debris = <<>> /\ s.alerts = <<>> /\ s.decisions = <<>>
  /\ s.mission_plan.kind = "empty" /\ s.maintenance_schedule.kind = "empty"
  /\ s.performance_metrics.kind = "empty"

FreshlyInitialized(s) ==
  /\ s.mission_phase = Enum("INITIALIZATION")
  /\ s.satellite_count = 0
  /\ EmptyCollections(s)

\* C20: a freshly initialized store, the one of the constructor and the one
\* reset_state leaves, has phase INITIALIZATION, satellite_count 0, every
\* collection empty, and start_time equal to last_update.
C20_FreshState ==
  /\ FreshlyInitialized(state) /\ state.start_time = state.last_update
  /\ [][ResetState => /\ FreshlyInitialized(state')
                      /\ state'.start_time = state'.last_update]_vars

Ids(xs) == [i \in 1..Len(xs) |-> xs[i].id]

\* C19: initialize_mission on a fresh store adds every satellite and every
\* ground station the constellation provider supplies, and returns the
\* summary of the store with satellite_count equal to the number of
\* satellites supplied, which is more than 0, and mission_phase
\* "initialization".
C19_InitializeMission ==
  [][(InitializeMission /\ FreshlyInitialized(state))
       => /\ Ids(state'.satellites) = Ids(_create_initial_constellation(now))
          /\ Ids(state'.ground_stations) = Ids(_setup_ground_stations)
          /\ ret'.val = get_state_summary(state')
          /\ ret'.val.satellite_count = Len(_create_initial_constellation(now))
          /\ ret'.val.satellite_count > 0
          /\ ret'.val.mission_phase = "initialization"]_vars

\* initialize_mission has returned on a store that reset_state had made
\* fresh at time 1
C19_Witness ==
  /\ ret.op = "initialize_mission" /\ ret.err = "none"
  /\ state.start_time = 1
  /\ ret.val.satellite_count = ConstellationSize
  /\ Len(state.ground_stations) = 3
  /\ Len(state.alerts) = 1

(***************************************************************************)
(* Alerts and decisions                                                    *)
(***************************************************************************)
\* xs is the sequence of the elements of ys at the positions of keep, in
\* the order of ys
IsSelection(xs, ys, keep) ==
  /\ Len(xs) = Cardinality(keep)
  /\ \E f \in [1..Len(xs) -> keep] :
       /\ \A i, j \in 1..Len(xs) : i < j => f[i] < f[j]
       /\ \A i \in 1..Len(xs) : xs[i] = ys[f[i]]

\* C21: get_active_alerts returns exactly the alerts that are not resolved,
\* in insertion order; an alert added with resolved = false is the last
\* alert the next get_active_alerts returns.
C21_ActiveAlerts ==
  [][GetActiveAlerts
       => /\ IsSelection(ret'.val, state.alerts, Unresolved(state.alerts))
          /\ (/\ ret.op = "add_alert"
              /\ ~state.alerts[Len(state.alerts)].resolved)
               => /\ ret'.val # <<>>
                  /\ ret'.val[Len(ret'.val)] = state.alerts[Len(state.alerts)]
                  /\ ret'.val[Len(ret'.val)].alert_id = ret.arg]_vars

\* the store holds a resolved alert followed by an unresolved one, and
\* get_active_alerts has returned the second alone
C21_Witness ==
  /\ ret.op = "get_active_alerts"
  /\ Len(state.alerts) = 2
  /\ state.alerts[1].resolved /\ ~state.alerts[2].resolved
  /\ Len(ret.val) = 1
  /\ ret.val[1].alert_id = "TEST-001"

\* the call leaves every field of the state but those of keys as it was
OnlyChanges(keys) ==
  /\ DOMAIN state' = DOMAIN state
  /\ \A k \in DOMAIN state \ keys : state'[k] = state[k]

C23_ErrorTerminal ==
  /\ [][state.mission_phase = Enum("ERROR")
          => state'.mission_phase = Enum("ERROR")]_vars
  /\ [](\A i, j \in 1..Len(phaseTrace) :
          i # j => phaseTrace[i] # phaseTrace[j])

\* C24: update_mission_phase is unconditional: from any phase and for any
\* phase value p the call returns and leaves mission_phase = p, changing
\* nothing else but last_update.
C24_UnconditionalPhaseUpdate ==
  [][UpdateMissionPhase
       => /\ ret'.err = "none"
          /\ state'.mission_phase = Enum(ret'.arg)
          /\ state'.last_update = now
          /\ OnlyChanges({"mission_phase", "last_update"})]_vars

\* update_mission_phase(INITIALIZATION) has returned at time 1 on a store
\* that holds a satellite added at time 0
C24_Witness ==
  /\ ret.op = "update_mission_phase" /\ ret.arg = "INITIALIZATION"
  /\ state.mission_phase = Enum("INITIALIZATION")
  /\ state.last_update = 1
  /\ Len(state.satellites) = 1
  /\ state.satellites[1].last_contact = 0

\* every element of xs is an element of ys
Contains(ys, xs) ==
  \A i \in 1..Len(xs) : \E j \in 1..Len(ys) : ys[j] = xs[i]

\* C25: alerts and decisions are append-only across a run: every alert and
\* every decision the store held before run_autonomous_mission is still in
\* the store when the run has completed, together with the seven decisions
\* of the run.
C25_AppendOnlyAcrossRun ==
  [][RunComplete
       => /\ Contains(state'.alerts, state.alerts)
          /\ Contains(state'.decisions, state.decisions)
          /\ Len(state'.decisions) >= Len(state.decisions) + 7]_vars

(***************************************************************************)
(* import_state                                                            *)
(***************************************************************************)
\* an import_state call that has returned; the text it was given is doc'
Imported == (ImportDocument \/ ImportState) /\ ret'.err = "none"

StateFields == DOMAIN _initialize_state(0, 0)

\* C26: import_state is a shallow merge at the root: every top-level field
\* of the document replaces the store's field in full, every field absent
\* from the document keeps its value, and last_update is then the current
\* time.
C26_ShallowMerge ==
  [][Imported
       => /\ DOMAIN state' = DOMAIN state \cup DOMAIN doc'.obj
                               \cup {"last_update"}
          /\ \A k \in DOMAIN doc'.obj \ {"last_update"} :
               state'[k] = doc'.obj[k]
          /\ \A k \in DOMAIN state \ (DOMAIN doc'.obj \cup {"last_update"}) :
               state'[k] = state[k]
          /\ state'.last_update = now]_vars

\* the document that holds alerts = [] and last_update = 0 has been imported
\* at time 1 into a store with two satellites and an alert
C26_Witness ==
  /\ ret.op = "import_state" /\ ret.err = "none"
  /\ DOMAIN doc.obj = {"alerts", "last_update"}
  /\ state.alerts = <<>>
  /\ Len(state.satellites) = 2
  /\ state.satellite_count = 2
  /\ state.last_update = 1

\* C27: import_state rejects a parseable document with a top-level field
\* that is not a field of the mission state: the call fails and the state
\* gets no unknown field.
C27_UnknownFieldRejected ==
  [][(ImportDocument /\ ~(DOMAIN doc'.obj \subseteq StateFields))
       => /\ ret'.err # "none"
          /\ DOMAIN state' \subseteq StateFields]_vars

\* C28: after import_state of any parseable document satellite_count equals
\* the length of the satellite collection.
C28_CountAfterImport ==
  [][(ImportDocument /\ ret'.err = "none")
       => state'.satellite_count = Len(state'.satellites)]_vars

(***************************************************************************)
(* update_satellite                                                        *)
(***************************************************************************)
\* the positions of the satellites of the state with the given id
Holding(s, satellite_id) ==
  {i \in 1..Len(s.satellites) : s.satellites[i].id = satellite_id}

\* C29: update_satellite on an id the store holds merges the given fields
\* into the satellite with that id (the first one in the list), refreshes
\* its last_contact and the state's last_update, and leaves every other
\* satellite, satellite_count and every other collection unchanged.
C29_UpdateSatelliteFrame ==
  [][(UpdateSatellite /\ Holding(state, ret'.arg) # {})
       => \E i \in Holding(state, ret'.arg), updates \in Updates :
            /\ \A j \in Holding(state, ret'.arg) : i <= j
            /\ Len(state'.satellites) = Len(state.satellites)
            /\ \A k \in DOMAIN updates :
                 state'.satellites[i][k] = updates[k]
            /\ state'.satellites[i].last_contact = now
            /\ \A k \in DOMAIN state.satellites[i]
                          \ (DOMAIN updates \cup {"last_contact"}) :
                 state'.satellites[i][k] = state.satellites[i][k]
            /\ \A j \in 1..Len(state.satellites) :
                 j # i => state'.satellites[j] = state.satellites[j]
            /\ state'.last_update = now
            /\ OnlyChanges({"satellites", "last_update"})]_vars

\* SAT-002, the second of two satellites added at time 0, has been updated
\* at time 1
C29_Witness ==
  /\ ret.op = "update_satellite" /\ ret.arg = "SAT-002"
  /\ Len(state.satellites) = 2
  /\ state.satellites[1].id = "SAT-001" /\ state.satellites[1].last_contact = 0
  /\ state.satellites[1].status = "active"
  /\ state.satellites[2].id = "SAT-002" /\ state.satellites[2].last_contact = 1
  /\ state.satellites[2].status = "maintenance"
  /\ state.satellite_count = 2

(***************************************************************************)
(* The threat-scan stage of the pipeline                                   *)
(***************************************************************************)
\* C30: the threats the threat-scan stage records are the scanner's result
\* on the satellites' positions: a pair has a threat record iff it is less
\* than 100 km apart, and its record is HIGH iff it is less than 50 km
\* apart, so that the records are a function of the positions.
C30_ThreatScanStage ==
  [][CollisionAvoidance
       => \A p \in PairSet(Len(g.satellites)) :
            LET recorded == ThreatsOf(g'.collision_threats,
                                      g.satellites[p[1]].id,
                                      g.satellites[p[2]].id)
                scanned == ThreatsOf(detect_collision_threats(g.satellites),
                                     g.satellites[p[1]].id,
                                     g.satellites[p[2]].id)
            IN /\ recorded # {} <=> scanned # {}
               /\ recorded # {}
                    <=> Separation(g.satellites, p[1], p[2]) < 100
               /\ \A k \in recorded :
                    g'.collision_threats[k].risk_level = "HIGH"
                      <=> Separation(g.satellites, p[1], p[2]) < 50]_vars

(***************************************************************************)
(* Orbital records                                                         *)
(***************************************************************************)
\* the orbital records a store state holds
OrbitalRecords(s) == Len(s.orbital_data.items)

\* C31: each orbital-update pass appends one orbital record per satellite
\* to the store's orbital_data and keeps the records of earlier passes: a
\* run that returns leaves the records the store held before it, followed
\* by one record per satellite (so that n runs over s satellites leave n*s).
C31_OrbitalRecordsAccumulate ==
  [][RunComplete
       => /\ OrbitalRecords(state')
               = OrbitalRecords(state) + Len(state.satellites)
          /\ \A i \in 1..OrbitalRecords(state) :
               /\ i <= OrbitalRecords(state')
               /\ state'.orbital_data.items[i] = state.orbital_data.items[i]]_vars

(***************************************************************************)
(* Maintenance tasks                                                       *)
(***************************************************************************)
\* the satellites a list of maintenance records names
Maintained(records) == {records[k].satellite_id : k \in 1..Len(records)}

\* the records of a list that are of priority HIGH
HighPriority(records) ==
  SelectSeqIdx(records,
               {k \in 1..Len(records) : records[k].priority = "HIGH"}, 1)

\* C32: after a run that returns, every satellite the maintenance stage
\* found below threshold has a record in the store's maintenance_tasks, and
\* get_maintenance_tasks returns the HIGH ones among them.
C32_MaintenanceTasksRecorded ==
  [][(GetMaintenanceTasks /\ RunReturned)
       => LET required == state.maintenance_schedule.maintenance_required
          IN /\ Maintained(required) \subseteq Maintained(state.maintenance_tasks)
             /\ Maintained(HighPriority(required))
                  \subseteq Maintained(ret'.val)]_vars

(***************************************************************************)
(* Satellite status                                                        *)
(***************************************************************************)
\* the tags of the SatelliteStatus enumeration
StatusTags == {SatelliteStatus[name] : name \in DOMAIN SatelliteStatus}

\* C33: between the calls of initialize_mission and run_autonomous_mission,
\* the status of every stored satellite is one of the tags active, standby,
\* maintenance, offline, emergency.
C33_StatusClosedSet ==
  Idle => \A i \in 1..Len(state.satellites) :
            state.satellites[i].status \in StatusTags

(***************************************************************************)
(* Determinism of a run                                                    *)
(***************************************************************************)
\* C34: a run is determined by the store state it starts from: whatever a
\* stage could have computed from the state it was given is what it did
\* compute, so that two runs from equal states agree on the satellites'
\* fields, the collision threats, the maintenance schedule, the alerts and
\* the decisions that the end of the run copies into the store.
C34_DeterministicRun ==
  /\ [][SatelliteManager
          => \A draw \in [1..Len(g.satellites) -> StatusDraws] :
               /\ g' = satellite_management_agent(g, draw, now)
               /\ state'.satellites
                    = satellite_management_agent(g, draw, now).satellites]_vars
  /\ [][CollisionAvoidance
          => \A distance \in [PairSet(Len(g.satellites)) -> Distances] :
               g' = collision_avoidance_agent(g, distance)]_vars
  /\ [][MaintenanceAgent
          => \A health \in [1..Len(g.satellites) -> HealthDraws] :
               g' = predictive_maintenance_agent(g, health)]_vars

(***************************************************************************)
(* Cancellation                                                            *)
(***************************************************************************)
\* the elements of a sequence
Range(xs) == {xs[i] : i \in 1..Len(xs)}

\* C35: cancelling a run after stage k has completed runs no further stage
\* and leaves in the store what stages 1..k committed: their decisions,
\* their alerts, and the orbital records, collision threats and
\* maintenance schedule they wrote.
C35_CancelKeepsCommitted ==
  [][RunCancel
       => /\ pc' = "idle"
          /\ Contains(state'.decisions, g.decisions)
          /\ Contains(state'.alerts, g.alerts)
          /\ "orbital_mechanics" \in Range(executed)
               => state'.orbital_data = g.orbital_data
          /\ "collision_avoidance" \in Range(executed)
               => state'.collision_threats = g.collision_threats
          /\ "maintenance_agent" \in Range(executed)
               => state'.maintenance_schedule = g.maintenance_schedule]_vars

(***************************************************************************)
(* Satellite ids under the agent's calls                                   *)
(***************************************************************************)
\* C36: whatever the order and number of the calls of initialize_mission
\* and run_autonomous_mission, the ids of the stored satellites are pairwise
\* distinct.
C36_DistinctIdsUnderAgent ==
  \A i, j \in 1..Len(state.satellites) :
    i # j => state.satellites[i].id # state.satellites[j].id

(***************************************************************************)
(* The representation of mission_phase                                     *)
(***************************************************************************)
\* C37: in every state the public calls reach, import_state of an exported
\* text included, mission_phase holds a member of the MissionPhase
\* enumeration, so that export_state and get_state_summary never raise, not
\* even export_state called again after import_state(export_state()).
C37_PhaseIsEnumMember ==
  /\ [](/\ state.mission_phase.kind = "enum"
        /\ state.mission_phase.v \in DOMAIN MissionPhase)
  /\ [][(ExportState \/ GetStateSummary) => ret'.err = "none"]_vars

(***************************************************************************)
(* Battery level and signal strength                                       *)
(***************************************************************************)
\* C38: after initialize_mission and any number of runs, the battery_level
\* and the signal_strength of every stored satellite are within 0..100.
\* The five satellites of the code's constellation are covered by the second
\* conjunct, whatever ConstellationSize is.
C38_LevelsInRange ==
  /\ \A i \in 1..Len(state.satellites) :
       /\ state.satellites[i].battery_level \in 0..100
       /\ state.satellites[i].signal_strength \in 0..100
  /\ \A k \in 1..Len(satellite_configs) :
       /\ Satellite(k, now).battery_level \in 0..100
       /\ Satellite(k, now).signal_strength \in 0..100

\* a run after initialize_mission has returned, with the lowest draws for
\* the first satellite and the highest for the second
C38_Witness ==
  /\ RunReturned
  /\ Len(state.satellites) = 2
  /\ state.satellites[1].battery_level = 75
  /\ state.satellites[1].signal_strength = 90
  /\ state.satellites[2].battery_level = 94
  /\ state.satellites[2].signal_strength = 99

(***************************************************************************)
(* reset_state                                                             *)
(***************************************************************************)
\* C39: reset_state, from any state, leaves the store in the fresh initial
\* state (phase INITIALIZATION, satellite_count 0, every collection empty)
\* and with an empty snapshot history.
C39_ResetState ==
  [][ResetState
       => /\ FreshlyInitialized(state')
          /\ state'.start_time = now
          /\ state_history' = <<>>
          /\ get_state_history(state_history', state') = <<>>]_vars

\* reset_state has returned, the clock having advanced to 1 between its two
\* readings
C39_Witness ==
  /\ ret.op = "reset_state"
  /\ state.start_time = 0 /\ state.last_update = 1
  /\ FreshlyInitialized(state)
  /\ state_history = <<>>

====
